---- MODULE Spec2Model ----
(***************************************************************************)
(* Position/order lifecycle of the trading bot                             *)
(* (Backend/Connection/trading_implementation.py, Backend/Connection/      *)
(* config.py).                                                             *)
(*                                                                         *)
(* The ledger self.positions only ever receives the key self.symbol        *)
(* (execute_signal is the only writer of new keys), so the model keeps the *)
(* ledger entry of that one symbol.  Prices, sizes and portfolio values    *)
(* are integers; the input sets are chosen so that the float arithmetic of *)
(* the code (price * 0.98, 1000 / distance, (peak - v) / peak) is exact on *)
(* them.  Percentages are integers over 100.                               *)
(***************************************************************************)
EXTENDS Integers, Sequences, FiniteSets, TLC

(* ---------------- program constants ---------------- *)
TOTAL_PORTFOLIO_CAPITAL_USD == 100000
RISK_PER_TRADE_PERCENT == 1
MAX_CONCURRENT_TRADES == 5
GLOBAL_DRAWDOWN_LIMIT_PERCENT == 20
stop_loss_pct == 2
take_profit_pct == 4

(* ---------------- state ---------------- *)
VARIABLES
  positions,              \* self.positions[self.symbol]
  peak_portfolio_value,   \* self.peak_portfolio_value
  hedge_mode,             \* trading_config.json hedge_mode
  max_concurrent_trades,  \* self.max_concurrent_trades
  quantity_btc,           \* trading_config.json quantity_btc (0 for None)
  symbol,                 \* self.symbol
  exchange,               \* the account at the exchange: its position mode
                          \* and the position it holds for self.symbol
  running,                \* LiveTradingBot.run is still in its while loop
  ever_halted,            \* history: check_global_drawdown has returned True
  sent,                   \* history: the orders the last operation sent
  last,                   \* history: the last operation, its inputs and result
  prev,                   \* history: the signal of the operation before the
                          \* last, if that was an execute_signal call whose
                          \* orders all succeeded, an opening order among
                          \* them; 0 otherwise
  sim                     \* the locals of run_strategy_trading's bar loop

vars == <<positions, peak_portfolio_value, hedge_mode, max_concurrent_trades,
          quantity_btc, symbol, exchange, running, ever_halted, sent, last,
          prev, sim>>

(* ---------------- bounds and input sets ---------------- *)
\* the most orders one call of a TradingBot method sends (a close and an open,
\* or the closes of both hedge sides)
MaxOrdersPerCall == 2
\* the most orders one iteration of LiveTradingBot.run sends (two exit closes,
\* then the two closes of a flat signal in hedge mode)
MaxOrdersPerIteration == 4
\* Python None for a price, a portfolio value or a signal
NoneVal == -1
SignalNone == 2
\* prices handed to execute_signal
EntryPrices == {100, 200}
\* prices get_current_price returns in the polling loop (NoneVal is a failed
\* fetch)
LoopPrices == {NoneVal, 100, 200}
\* values get_portfolio_value returns in the polling loop (NoneVal is a
\* failed fetch)
LoopPortfolioValues == {NoneVal, 0, 79999, 125000}
\* prices handed to check_stop_loss_take_profit: the stop and target levels
\* of a long and a short entered at 100, and levels around an entry at 200
TickPrices == {96, 98, 100, 104, 196, 204}
\* portfolio values handed to the drawdown check
PortfolioValues == {0, 79999, 80000, 80001, 125000}
\* the exchange's answers to the orders of one operation: oks[n] answers the
\* n-th order; an operation that starts with k open positions sends at most
\* 2k + 1 orders, and the answers nobody asks for are fixed to TRUE
Outcomes(max, k) ==
  {oks \in [1..max -> BOOLEAN] : \A i \in 1..max : i > 2 * k + 1 => oks[i]}

(* ---------------- the ledger entry of self.symbol ---------------- *)
\* A position record is a Python dict with the keys side, size, entry_price,
\* stop_loss_price and take_profit_price; a hedge entry is a Python dict with
\* the keys long and short.  Both are instances of dict, and the code tells
\* them apart only by .get('long') / .get('short'), which return None on a
\* position record.  An entry is therefore kept as the three things the code
\* can read from it: the record keys (single), and what .get returns for
\* 'long' and 'short'.
\* Python None in place of a position dict
NoPos ==
  [side |-> 0, size |-> 0, entry_price |-> 0, stop_loss_price |-> 0,
   take_profit_price |-> 0]
\* self.symbol not in self.positions
AbsentEntry == [shape |-> "absent", single |-> NoPos, long |-> NoPos, short |-> NoPos]
\* self.positions[symbol] = None
NoneEntry == [shape |-> "none", single |-> NoPos, long |-> NoPos, short |-> NoPos]
\* self.positions[symbol] = position_data (one-way record)
SingleEntry(p) == [shape |-> "single", single |-> p, long |-> NoPos, short |-> NoPos]
\* self.positions[symbol] = {'long': l, 'short': s}
DictEntry(l, s) == [shape |-> "dict", single |-> NoPos, long |-> l, short |-> s]
\* a position record that was also given a 'long' or 'short' key (line 1217
\* on an entry that is a position record)
MixedEntry(p, l, s) == [shape |-> "mixed", single |-> p, long |-> l, short |-> s]

\* isinstance(symbol_positions, dict): true of a hedge pair and of a position
\* record alike
IsDict(e) == e.shape \in {"single", "dict", "mixed"}

\* a ledger whose entry is replaced by the new position instead of gaining it
SetSide_replacing(e, side_key, p) ==
  DictEntry(IF side_key = "long" THEN p ELSE NoPos,
            IF side_key = "long" THEN NoPos ELSE p)

\* the dict e after e[side_key] = p
SetSide(e, side_key, p) ==
  LET l == IF side_key = "long" THEN p ELSE e.long
      s == IF side_key = "long" THEN e.short ELSE p
  IN IF e.single = NoPos THEN DictEntry(l, s)
     ELSE IF l = NoPos /\ s = NoPos THEN SingleEntry(e.single)
     ELSE MixedEntry(e.single, l, s)

\* the open positions an entry holds, as a set
OpenPositions(e) == {e.single, e.long, e.short} \ {NoPos}

(* ---------------- TradingBot.place_market_order ---------------- *)
\* The order-creation calls place_market_order makes for one order: ccxt's
\* create_market_order (line 437) and, when that raises the error 10032 with
\* which a demo-trading account answers it, the POST to /v5/order/create of
\* _place_order_direct_api (lines 455-458 and 922).
order_requests(demo) ==
  IF demo THEN <<"create_market_order", "order/create">>
  ELSE <<"create_market_order">>

\* The exchange's answer to the n-th order of the operation is oks[n], given by
\* the last of the order's requests; a failure (exception or None from the
\* fallback) is returned as None.
\* No caller passes params, so the order carries positionIdx and nothing else:
\* reduceOnly is never set.
place_market_order(st, oks, by, side, amount, position_idx) ==
  [st EXCEPT !.sent = Append(@, [by |-> by, side |-> side, amount |-> amount,
                                 positionIdx |-> position_idx,
                                 reduceOnly |-> FALSE,
                                 requests |-> order_requests(st.demo),
                                 ok |-> oks[Len(st.sent) + 1]])]

LastOk(st) == st.sent[Len(st.sent)].ok

(* ---------------- TradingBot._place_order_direct_api ---------------- *)
\* Quantities, steps and minimums are counted in units of 0.0001 coin.
\* line 799: round(amount / qty_step) * qty_step, Python's round taking a tie
\* to the even neighbour
round_to_step(amount, qty_step) ==
  LET k == amount \div qty_step
      r == amount % qty_step
  IN IF 2 * r > qty_step \/ (2 * r = qty_step /\ k % 2 = 1)
     THEN (k + 1) * qty_step ELSE k * qty_step

\* lines 810-819: the decimal places of the quantity string, by qty_step
\* (1, 0.1, 0.01, 0.001 coin are 10000, 1000, 100, 10 units)
decimal_places(qty_step) ==
  IF qty_step >= 10000 THEN 0
  ELSE IF qty_step >= 1000 THEN 1
  ELSE IF qty_step >= 100 THEN 2
  ELSE IF qty_step >= 10 THEN 3
  ELSE 8

\* str.rstrip('0') on the decimal digits of the whole number n
RECURSIVE rstrip_zeros(_)
rstrip_zeros(n) ==
  IF n = 0 THEN 0
  ELSE IF n % 10 = 0 THEN rstrip_zeros(n \div 10) ELSE n

\* line 823: f"{v:.{dp}f}".rstrip('0').rstrip('.'), as the number the string
\* denotes.  With a decimal point in the string the zeros stripped are those
\* of the fraction; with dp = 0 there is none and they are those of the whole
\* number.
format_quantity(v, dp) ==
  IF dp = 0 THEN rstrip_zeros(round_to_step(v, 10000) \div 10000) * 10000
  ELSE IF dp = 1 THEN round_to_step(v, 1000)
  ELSE IF dp = 2 THEN round_to_step(v, 100)
  ELSE IF dp = 3 THEN round_to_step(v, 10)
  ELSE v

\* lines 784-823: the 'qty' of the order _place_order_direct_api posts for
\* amount, with qtyStep and minOrderQty of the instrument
direct_api_quantity(amount, qty_step, min_qty) ==
  LET rounded == round_to_step(amount, qty_step)
      btc_amount_rounded == IF rounded < min_qty THEN min_qty ELSE rounded
  IN format_quantity(btc_amount_rounded, decimal_places(qty_step))

\* lines 830-839: the validation of the amount, TRUE when the call returns
\* None there.  The tests are one if / elif chain: more than 10 coins warns,
\* less than 0.0001 coin warns, and 'elif amount <= 0' returns None.
direct_api_rejects(amount) ==
  IF amount > 100000 THEN FALSE
  ELSE IF amount < 1 THEN FALSE
  ELSE amount <= 0

(* ---------------- TradingBot.close_position ---------------- *)
\* a close that sends the order on the position's own side
close_position_side_same(st, side, oks) ==
  LET position == IF side = "long" THEN st.positions.long ELSE st.positions.short
  IN IF position = NoPos THEN [st |-> st, ret |-> FALSE]
     ELSE
       LET close_side == IF position.side = 1 THEN "buy" ELSE "sell"
           position_idx == IF side = "long" THEN "1" ELSE "2"
           s1 == place_market_order(st, oks, "close_position", close_side,
                                    position.size, position_idx)
           cleared == SetSide(s1.positions, side, NoPos)
       IN IF LastOk(s1)
          THEN [st |-> [s1 EXCEPT !.positions =
                          IF cleared.long = NoPos /\ cleared.short = NoPos
                          THEN NoneEntry ELSE cleared],
                ret |-> TRUE]
          ELSE [st |-> s1, ret |-> FALSE]

\* the hedge branch with a side given (lines 1306-1329)
close_position_side(st, side, oks) ==
  LET position == IF side = "long" THEN st.positions.long ELSE st.positions.short
  IN IF position = NoPos THEN [st |-> st, ret |-> FALSE]
     ELSE
       LET close_side == IF position.side = 1 THEN "sell" ELSE "buy"
           position_idx == IF side = "long" THEN "1" ELSE "2"
           s1 == place_market_order(st, oks, "close_position", close_side,
                                    position.size, position_idx)
           cleared == SetSide(s1.positions, side, NoPos)
       IN IF LastOk(s1)
          THEN [st |-> [s1 EXCEPT !.positions =
                          IF cleared.long = NoPos /\ cleared.short = NoPos
                          THEN NoneEntry ELSE cleared],
                ret |-> TRUE]
          ELSE [st |-> s1, ret |-> FALSE]

\* lines 1332-1340: what the one-way branch takes for the position, None for
\* a position record (it has no 'long' and no 'short' key)
ConvertToOneWay(e) ==
  IF ~IsDict(e) THEN NoPos
  ELSE IF e.long # NoPos THEN e.long
  ELSE e.short

\* the one-way branch (lines 1330-1362)
close_position_oneway(st, oks) ==
  LET symbol_positions == ConvertToOneWay(st.positions)
      s0 == IF IsDict(st.positions)
            THEN [st EXCEPT !.positions =
                    IF symbol_positions = NoPos THEN NoneEntry
                    ELSE SingleEntry(symbol_positions)]
            ELSE st
  IN IF symbol_positions = NoPos THEN [st |-> s0, ret |-> FALSE]
     ELSE
       LET close_side == IF symbol_positions.side = 1 THEN "sell" ELSE "buy"
           s1 == place_market_order(s0, oks, "close_position", close_side,
                                    symbol_positions.size, "0")
       IN IF LastOk(s1)
          THEN [st |-> [s1 EXCEPT !.positions = NoneEntry], ret |-> TRUE]
          ELSE [st |-> s1, ret |-> FALSE]

\* close_position(symbol, side) reading hedge_mode = hm; side is "none",
\* "long" or "short"
close_position(st, side, hm, oks) ==
  IF st.positions.shape = "absent" THEN [st |-> st, ret |-> FALSE]
  ELSE IF hm /\ IsDict(st.positions)
  THEN IF side = "none"
       THEN LET r1 == IF st.positions.long # NoPos
                      THEN close_position_side(st, "long", oks)
                      ELSE [st |-> st, ret |-> FALSE]
                r2 == IF st.positions.short # NoPos
                      THEN close_position_side(r1.st, "short", oks)
                      ELSE [st |-> r1.st, ret |-> FALSE]
            IN [st |-> r2.st, ret |-> r1.ret \/ r2.ret]
       ELSE close_position_side(st, side, oks)
  ELSE close_position_oneway(st, oks)

(* ---------------- TradingBot.check_global_drawdown ---------------- *)
\* check_global_drawdown with a strict comparison against the limit
check_global_drawdown_strict(peak, current_portfolio_value) ==
  LET new_peak == IF current_portfolio_value > peak
                  THEN current_portfolio_value ELSE peak
  IN [peak |-> new_peak,
      ret |-> (new_peak - current_portfolio_value) * 100
                > GLOBAL_DRAWDOWN_LIMIT_PERCENT * new_peak,
      raised |-> new_peak = 0]

\* check_global_drawdown as a latch: once tripped it keeps reporting True
check_global_drawdown_latched(peak, current_portfolio_value) ==
  LET new_peak == IF current_portfolio_value > peak
                  THEN current_portfolio_value ELSE peak
  IN [peak |-> new_peak,
      ret |-> \/ (new_peak - current_portfolio_value) * 100
                   >= GLOBAL_DRAWDOWN_LIMIT_PERCENT * new_peak
              \/ ever_halted,
      raised |-> new_peak = 0]

\* a check whose peak follows the value handed in, down as well as up
check_global_drawdown_following(peak, current_portfolio_value) ==
  [peak |-> current_portfolio_value, ret |-> FALSE, raised |-> FALSE]

\* drawdown = (peak - v) / peak >= limit, cross-multiplied; peak = 0 is the
\* ZeroDivisionError of line 372
check_global_drawdown(peak, current_portfolio_value) ==
  LET new_peak == IF current_portfolio_value > peak
                  THEN current_portfolio_value ELSE peak
  IN IF new_peak = 0
     THEN [peak |-> new_peak, ret |-> FALSE, raised |-> TRUE]
     ELSE [peak |-> new_peak,
           ret |-> IF new_peak > 0
                   THEN (new_peak - current_portfolio_value) * 100
                          >= GLOBAL_DRAWDOWN_LIMIT_PERCENT * new_peak
                   ELSE (new_peak - current_portfolio_value) * 100
                          <= GLOBAL_DRAWDOWN_LIMIT_PERCENT * new_peak,
           raised |-> FALSE]

(* ---------------- TradingBot.can_open_new_position ---------------- *)
can_open_new_position(e, hm, maxc) ==
  LET active_count ==
        IF hm
        THEN IF IsDict(e)
             THEN (IF e.long # NoPos THEN 1 ELSE 0)
                  + (IF e.short # NoPos THEN 1 ELSE 0)
             ELSE 0
        ELSE IF e.shape \in {"absent", "none"} THEN 0 ELSE 1
  IN ~(active_count >= maxc)

(* ---------------- config.calculate_position_size ---------------- *)
TRADEABLE_ASSETS == {"BTC/USDT"}
\* the default of TradingBot.__init__ for self.symbol
DefaultSymbol == "BTC/USDT"

\* a sizer that divides by the signed distance entry_price - stop_loss_price
calculate_position_size_signed(sym, entry_price, stop_loss_price) ==
  IF sym \notin TRADEABLE_ASSETS THEN 0
  ELSE IF entry_price <= 0 \/ stop_loss_price <= 0 THEN 0
  ELSE LET risk_amount_usd ==
             (TOTAL_PORTFOLIO_CAPITAL_USD * RISK_PER_TRADE_PERCENT) \div 100
           sl_distance_usd_per_coin == entry_price - stop_loss_price
       IN IF sl_distance_usd_per_coin = 0 THEN 0
          ELSE IF sl_distance_usd_per_coin > 0
          THEN risk_amount_usd \div sl_distance_usd_per_coin
          ELSE 0 - (risk_amount_usd \div (0 - sl_distance_usd_per_coin))

calculate_position_size(sym, entry_price, stop_loss_price) ==
  IF sym \notin TRADEABLE_ASSETS THEN 0
  ELSE IF entry_price <= 0 \/ stop_loss_price <= 0 THEN 0
  ELSE LET risk_amount_usd ==
             (TOTAL_PORTFOLIO_CAPITAL_USD * RISK_PER_TRADE_PERCENT) \div 100
           sl_distance_usd_per_coin ==
             IF entry_price >= stop_loss_price
             THEN entry_price - stop_loss_price
             ELSE stop_loss_price - entry_price
       IN IF sl_distance_usd_per_coin = 0 THEN 0
          ELSE risk_amount_usd \div sl_distance_usd_per_coin

(* ---------------- TradingBot.execute_signal ---------------- *)
\* signal == 0 (lines 1030-1053); hm is the hedge_mode execute_signal read
\* (lines 1027-1028), hm_close the one the close_position calls it makes read
\* for themselves (lines 1290-1291)
execute_signal_flat_reread(st, hm, hm_close, oks) ==
  IF st.positions.shape = "absent" THEN [st |-> st, ret |-> FALSE]
  ELSE IF hm /\ IsDict(st.positions)
  THEN LET r1 == IF st.positions.long # NoPos
                 THEN close_position(st, "long", hm_close, oks)
                 ELSE [st |-> st, ret |-> FALSE]
           r2 == IF st.positions.short # NoPos
                 THEN close_position(r1.st, "short", hm_close, oks)
                 ELSE [st |-> r1.st, ret |-> FALSE]
       IN [st |-> r2.st, ret |-> r1.ret \/ r2.ret]
  ELSE IF st.positions.shape # "none"
  THEN close_position(st, "none", hm_close, oks)
  ELSE [st |-> st, ret |-> FALSE]

\* signal == 0 with trading_config.json left alone during the call
execute_signal_flat(st, hm, oks) == execute_signal_flat_reread(st, hm, hm, oks)

\* line 1143: the signal repeats the side of the position held
same_side(signal, existing_pos) == signal = existing_pos.side

\* a preparation that closes the opposite side in hedge mode as well
execute_signal_prepare_reversing(st, signal, hm, oks) ==
  LET e0 == IF st.positions.shape = "absent"
            THEN IF hm THEN DictEntry(NoPos, NoPos) ELSE NoneEntry
            ELSE st.positions
      s0 == [st EXCEPT !.positions = e0]
  IN IF hm
     THEN IF IsDict(e0)
          THEN LET existing_pos == IF signal = 1 THEN e0.long ELSE e0.short
                   r == close_position(s0, IF signal = 1 THEN "short"
                                           ELSE "long", hm, oks)
               IN [st |-> r.st, go |-> existing_pos = NoPos]
          ELSE [st |-> [s0 EXCEPT !.positions = DictEntry(NoPos, NoPos)],
                go |-> TRUE]
     ELSE IF e0.shape = "none" THEN [st |-> s0, go |-> TRUE]
     ELSE LET symbol_positions == ConvertToOneWay(e0)
              s1 == [s0 EXCEPT !.positions =
                       IF symbol_positions = NoPos THEN NoneEntry
                       ELSE SingleEntry(symbol_positions)]
          IN IF symbol_positions = NoPos THEN [st |-> s1, go |-> TRUE]
             ELSE IF (signal = 1 /\ symbol_positions.side = -1)
                     \/ (signal = -1 /\ symbol_positions.side = 1)
             THEN LET r == close_position(s1, "none", hm, oks)
                  IN IF r.ret THEN [st |-> r.st, go |-> TRUE]
                     ELSE [st |-> [r.st EXCEPT !.positions = NoneEntry],
                           go |-> TRUE]
             ELSE IF same_side(signal, symbol_positions)
             THEN [st |-> s1, go |-> FALSE]
             ELSE [st |-> s1, go |-> TRUE]

\* lines 1063-1145: set up the entry, skip on a same-side position, close the
\* opposite side in one-way mode; go is FALSE when the call returned there
execute_signal_prepare(st, signal, hm, oks) ==
  LET e0 == IF st.positions.shape = "absent"
            THEN IF hm THEN DictEntry(NoPos, NoPos) ELSE NoneEntry
            ELSE st.positions
      s0 == [st EXCEPT !.positions = e0]
  IN IF hm
     THEN IF IsDict(e0)
          THEN LET existing_pos == IF signal = 1 THEN e0.long ELSE e0.short
               IN [st |-> s0, go |-> existing_pos = NoPos]
          ELSE [st |-> [s0 EXCEPT !.positions = DictEntry(NoPos, NoPos)],
                go |-> TRUE]
     ELSE IF e0.shape = "none" THEN [st |-> s0, go |-> TRUE]
     ELSE LET symbol_positions == ConvertToOneWay(e0)
              s1 == [s0 EXCEPT !.positions =
                       IF symbol_positions = NoPos THEN NoneEntry
                       ELSE SingleEntry(symbol_positions)]
          IN IF symbol_positions = NoPos THEN [st |-> s1, go |-> TRUE]
             ELSE IF (signal = 1 /\ symbol_positions.side = -1)
                     \/ (signal = -1 /\ symbol_positions.side = 1)
             THEN LET r == close_position(s1, "none", hm, oks)
                  IN IF r.ret THEN [st |-> r.st, go |-> TRUE]
                     ELSE [st |-> [r.st EXCEPT !.positions = NoneEntry],
                           go |-> TRUE]
             ELSE IF same_side(signal, symbol_positions)
             THEN [st |-> s1, go |-> FALSE]
             ELSE [st |-> s1, go |-> TRUE]

\* lines 1162-1164, 1178-1181
StopLossPrice(signal, current_price) ==
  IF signal = 1 THEN (current_price * (100 - stop_loss_pct)) \div 100
  ELSE (current_price * (100 + stop_loss_pct)) \div 100
\* a take-profit price computed as for a Long whatever the side
TakeProfitPrice_above(signal, current_price) ==
  (current_price * (100 + take_profit_pct)) \div 100

\* line 1210
TakeProfitPrice(signal, current_price) ==
  IF signal = 1 THEN (current_price * (100 + take_profit_pct)) \div 100
  ELSE (current_price * (100 - take_profit_pct)) \div 100

\* a sizing that sizes by risk whatever quantity_btc holds
sized_quantity_by_risk(qty, sym, current_price, stop_loss_price) ==
  calculate_position_size(sym, current_price, stop_loss_price)

\* lines 1151-1167: quantity_btc of trading_config.json if it is positive,
\* else the size by risk
sized_quantity(qty, sym, current_price, stop_loss_price) ==
  IF qty > 0 THEN qty
  ELSE calculate_position_size(sym, current_price, stop_loss_price)

\* a tagging that takes '1' for the short slot and '2' for the long one
open_position_idx_swapped(hm, signal) ==
  IF hm THEN (IF signal = 1 THEN "2" ELSE "1") ELSE "0"

\* lines 1187-1194: the positionIdx of an opening order
open_position_idx(hm, signal) ==
  IF hm THEN (IF signal = 1 THEN "1" ELSE "2") ELSE "0"

\* lines 1147-1267: concurrency gate, sizing, order, ledger insert; a None
\* price raises TypeError in the stop-loss arithmetic
execute_signal_open(st, signal, current_price, hm, maxc, qty, oks) ==
  IF ~can_open_new_position(st.positions, hm, maxc)
  THEN [st |-> st, ret |-> FALSE, raised |-> FALSE]
  ELSE IF current_price = NoneVal
  THEN [st |-> st, ret |-> FALSE, raised |-> TRUE]
  ELSE
    LET stop_loss_price == StopLossPrice(signal, current_price)
        position_size ==
          sized_quantity(qty, symbol, current_price, stop_loss_price)
    IN IF position_size <= 0
       THEN [st |-> st, ret |-> FALSE, raised |-> FALSE]
       ELSE
         LET side == IF signal = 1 THEN "buy" ELSE "sell"
             position_idx == open_position_idx(hm, signal)
             s1 == place_market_order(st, oks, "execute_signal", side,
                                      position_size, position_idx)
             position_data ==
               [side |-> signal, size |-> position_size,
                entry_price |-> current_price,
                stop_loss_price |-> stop_loss_price,
                take_profit_price |-> TakeProfitPrice(signal, current_price)]
             d == IF IsDict(s1.positions) THEN s1.positions
                  ELSE DictEntry(NoPos, NoPos)
             side_key == IF signal = 1 THEN "long" ELSE "short"
         IN IF LastOk(s1)
            THEN [st |-> [s1 EXCEPT !.positions =
                            IF hm THEN SetSide(d, side_key, position_data)
                            ELSE SingleEntry(position_data)],
                  ret |-> TRUE, raised |-> FALSE]
            ELSE [st |-> s1, ret |-> FALSE, raised |-> FALSE]

\* execute_signal(signal, current_price, balance) reading hedge_mode = hm and
\* quantity_btc = qty; st carries positions, peak_portfolio_value and sent
execute_signal(st, signal, current_price, balance, hm, maxc, qty, oks) ==
  IF signal = 0
  THEN LET r == execute_signal_flat(st, hm, oks)
       IN [st |-> r.st, ret |-> r.ret, raised |-> FALSE, halted |-> FALSE,
           dd_checked |-> FALSE]
  ELSE
    LET dd == IF balance # NoneVal
              THEN check_global_drawdown(st.peak_portfolio_value, balance)
              ELSE [peak |-> st.peak_portfolio_value, ret |-> FALSE,
                    raised |-> FALSE]
        s0 == [st EXCEPT !.peak_portfolio_value = dd.peak]
        ddc == balance # NoneVal
    IN IF dd.raised
       THEN [st |-> s0, ret |-> FALSE, raised |-> TRUE, halted |-> FALSE,
             dd_checked |-> ddc]
       ELSE IF dd.ret
       THEN [st |-> s0, ret |-> FALSE, raised |-> FALSE, halted |-> TRUE,
             dd_checked |-> ddc]
       ELSE
         LET p == execute_signal_prepare(s0, signal, hm, oks)
         IN IF ~p.go
            THEN [st |-> p.st, ret |-> FALSE, raised |-> FALSE,
                  halted |-> FALSE, dd_checked |-> ddc]
            ELSE LET o == execute_signal_open(p.st, signal, current_price, hm,
                                              maxc, qty, oks)
                 IN [st |-> o.st, ret |-> o.ret, raised |-> o.raised,
                     halted |-> FALSE, dd_checked |-> ddc]

(* ---------------- TradingBot.check_stop_loss_take_profit ---------------- *)
\* lines 1423 / 1454
StopLossHit(position, current_price) ==
  \/ position.side = 1 /\ current_price <= position.stop_loss_price
  \/ position.side = -1 /\ current_price >= position.stop_loss_price
\* lines 1430 / 1461
TakeProfitHit(position, current_price) ==
  \/ position.side = 1 /\ current_price >= position.take_profit_price
  \/ position.side = -1 /\ current_price <= position.take_profit_price

\* a loop body that looks at the take-profit price first
check_one_position_target_first(r, position, slot, current_price, hm, oks) ==
  IF position = NoPos THEN r
  ELSE IF TakeProfitHit(position, current_price)
  THEN LET c == close_position(r.st, slot, hm, oks)
       IN [st |-> c.st,
           exits |-> Append(r.exits, [slot |-> slot, via |-> "take_profit",
                                      closed |-> c.ret])]
  ELSE IF StopLossHit(position, current_price)
  THEN LET c == close_position(r.st, slot, hm, oks)
       IN [st |-> c.st,
           exits |-> Append(r.exits, [slot |-> slot, via |-> "stop_loss",
                                      closed |-> c.ret])]
  ELSE r

\* one position of the loop body: stop loss first, then take profit; slot is
\* the side handed to close_position ("none" in the one-way branch)
check_one_position(r, position, slot, current_price, hm, oks) ==
  IF position = NoPos THEN r
  ELSE IF StopLossHit(position, current_price)
  THEN LET c == close_position(r.st, slot, hm, oks)
       IN [st |-> c.st,
           exits |-> Append(r.exits, [slot |-> slot, via |-> "stop_loss",
                                      closed |-> c.ret])]
  ELSE IF TakeProfitHit(position, current_price)
  THEN LET c == close_position(r.st, slot, hm, oks)
       IN [st |-> c.st,
           exits |-> Append(r.exits, [slot |-> slot, via |-> "take_profit",
                                      closed |-> c.ret])]
  ELSE r

\* hm is the hedge_mode the check read (lines 1403-1404), hm_close the one
\* the close_position calls it makes read for themselves (lines 1290-1291)
check_stop_loss_take_profit_reread(st, current_price, hm, hm_close, oks) ==
  LET e == st.positions
      r0 == [st |-> st, exits |-> <<>>]
  IN IF e.shape \in {"absent", "none"} THEN r0
     ELSE IF hm /\ IsDict(e)
     THEN check_one_position(
            check_one_position(r0, e.long, "long", current_price, hm_close,
                               oks),
            e.short, "short", current_price, hm_close, oks)
     ELSE check_one_position(r0, ConvertToOneWay(e), "none", current_price,
                             hm_close, oks)

check_stop_loss_take_profit(st, current_price, hm, oks) ==
  check_stop_loss_take_profit_reread(st, current_price, hm, hm, oks)

(* ---------------- TradingBot.close_all_positions ---------------- *)
\* hm is the hedge_mode close_all_positions read (lines 1372-1373), hm_close
\* the one the close_position calls it makes read for themselves (lines
\* 1290-1291)
close_all_positions_reread(st, hm, hm_close, oks) ==
  LET e == st.positions
  IN IF e.shape \in {"absent", "none"} THEN [st |-> st, closed |-> 0]
     ELSE IF hm /\ IsDict(e)
     THEN LET r1 == IF e.long # NoPos
                    THEN close_position(st, "long", hm_close, oks)
                    ELSE [st |-> st, ret |-> FALSE]
              r2 == IF e.short # NoPos
                    THEN close_position(r1.st, "short", hm_close, oks)
                    ELSE [st |-> r1.st, ret |-> FALSE]
          IN [st |-> r2.st,
              closed |-> (IF r1.ret THEN 1 ELSE 0) + (IF r2.ret THEN 1 ELSE 0)]
     ELSE LET r == close_position(st, "none", hm_close, oks)
          IN [st |-> r.st, closed |-> IF r.ret THEN 1 ELSE 0]

close_all_positions(st, hm, oks) == close_all_positions_reread(st, hm, hm, oks)

(* ---------------- LiveTradingBot.run, one iteration ---------------- *)
\* Python truthiness of a number or None (lines 1914, 1996, 2005, 2023)
Truthy(x) == x # NoneVal /\ x # 0

\* the drawdown check of an iteration: skipped when the portfolio value is
\* falsy (line 1914)
run_drawdown(st, portfolio_value) ==
  IF Truthy(portfolio_value)
  THEN check_global_drawdown(st.peak_portfolio_value, portfolio_value)
  ELSE [peak |-> st.peak_portfolio_value, ret |-> FALSE, raised |-> FALSE]

\* the exit check of an iteration, guarded by 'if current_price:' (line 1996)
run_exits(st, current_price, hm, oks) ==
  IF Truthy(current_price)
  THEN check_stop_loss_take_profit(st, current_price, hm, oks)
  ELSE [st |-> st, exits |-> <<>>]

\* the balance handed to execute_signal (lines 2005-2038): the portfolio
\* value, or the configured capital for a directional signal without one
run_balance(portfolio_value, signal) ==
  IF Truthy(portfolio_value) THEN portfolio_value
  ELSE IF signal = 0 THEN NoneVal
  ELSE TOTAL_PORTFOLIO_CAPITAL_USD

\* what an iteration that reached execute_signal leaves behind
run_result(b0, exits, current_price, r) ==
  [st |-> r.st,
   outcome |-> IF r.raised THEN "crashed" ELSE "done",
   halted |-> r.halted,
   dd_checked |-> b0.dd_checked \/ r.dd_checked,
   exits_checked |-> Truthy(current_price),
   exits |-> exits, ret |-> r.ret, raised |-> r.raised]

\* exits first, then the signal (lines 1995-2038)
run_trade(b0, x, portfolio_value, signal, current_price, hm, maxc, qty, oks) ==
  run_result(b0, x.exits, current_price,
             execute_signal(x.st, signal, current_price,
                            run_balance(portfolio_value, signal), hm, maxc,
                            qty, oks))

\* the iteration after its drawdown check dd (lines 1918-2038)
run_after_drawdown(b0, dd, portfolio_value, data_ok, signal, current_price, hm, maxc, qty, oks) ==
  IF dd.raised THEN [b0 EXCEPT !.outcome = "crashed", !.raised = TRUE]
  ELSE IF dd.ret THEN [b0 EXCEPT !.outcome = "halted", !.halted = TRUE]
  ELSE IF ~data_ok THEN [b0 EXCEPT !.outcome = "nodata"]
  ELSE IF signal = SignalNone THEN [b0 EXCEPT !.outcome = "nosignal"]
  ELSE run_trade(b0, run_exits(b0.st, current_price, hm, oks),
                 portfolio_value, signal, current_price, hm, maxc, qty, oks)

\* what an iteration has done when nothing after the config reload ran
run_base(st) ==
  [st |-> st, outcome |-> "disabled", halted |-> FALSE,
   dd_checked |-> FALSE, exits_checked |-> FALSE,
   exits |-> <<>>, ret |-> FALSE, raised |-> FALSE]

\* the iteration with the peak updated by its drawdown check dd
run_checked(st, dd, portfolio_value, data_ok, signal, current_price, hm, maxc, qty, oks) ==
  run_after_drawdown(
    [run_base([st EXCEPT !.peak_portfolio_value = dd.peak])
       EXCEPT !.dd_checked = Truthy(portfolio_value)],
    dd, portfolio_value, data_ok, signal, current_price, hm, maxc, qty, oks)

\* disabled: the config reload is due and 'enabled' is false; portfolio_value,
\* signal and current_price are what get_portfolio_value, get_current_signal
\* and get_current_price return (NoneVal / SignalNone for None); data_ok is
\* whether get_latest_data returned rows
run_iteration(st, disabled, portfolio_value, data_ok, signal, current_price, hm, maxc, qty, oks) ==
  IF disabled THEN run_base(st)
  ELSE run_checked(st, run_drawdown(st, portfolio_value), portfolio_value,
                   data_ok, signal, current_price, hm, maxc, qty, oks)

(* ---------------- the exchange ---------------- *)
\* The account at the exchange, as far as the orders of the bot see it: its
\* position mode (hedge: one long and one short slot per symbol, addressed by
\* positionIdx '1' and '2'; one-way: one net position, positionIdx '0') and
\* the sizes it holds for self.symbol.  tracked is FALSE in the
\* specifications that do not follow the exchange; demo tells a demo-trading
\* account (config.ENVIRONMENT = 'DEMO').
\* the most the account holds on one slot in the specifications that follow it
MaxExposure == 1000

NoExchange ==
  [tracked |-> FALSE, demo |-> FALSE, hedge |-> FALSE, net |-> 0, long |-> 0,
   short |-> 0]

Exposure(ex) ==
  (IF ex.net >= 0 THEN ex.net ELSE 0 - ex.net) + ex.long + ex.short

\* an order the account can fill: the slot fits the position mode, and an
\* order on the closing side of a hedge slot finds a position there
Accepts(ex, o) ==
  IF o.positionIdx = "0" THEN ~ex.hedge
  ELSE /\ ex.hedge
       /\ (o.positionIdx = "1" /\ o.side = "sell") => ex.long > 0
       /\ (o.positionIdx = "2" /\ o.side = "buy") => ex.short > 0

\* the account after filling o: a market order without reduceOnly on the net
\* position moves it by the whole amount, through zero if need be; one with
\* reduceOnly, and one on the closing side of a hedge slot, only reduces
Fill(ex, o) ==
  LET a == o.amount
      Min(x, y) == IF x <= y THEN x ELSE y
  IN IF o.positionIdx = "0"
     THEN IF o.reduceOnly
          THEN IF o.side = "buy"
               THEN [ex EXCEPT !.net = IF @ < 0 THEN @ + Min(a, 0 - @) ELSE @]
               ELSE [ex EXCEPT !.net = IF @ > 0 THEN @ - Min(a, @) ELSE @]
          ELSE [ex EXCEPT !.net = IF o.side = "buy" THEN @ + a ELSE @ - a]
     ELSE IF o.positionIdx = "1"
     THEN [ex EXCEPT !.long = IF o.side = "buy" THEN @ + a ELSE @ - Min(a, @)]
     ELSE [ex EXCEPT !.short = IF o.side = "sell" THEN @ + a ELSE @ - Min(a, @)]

\* the account after the orders s[i..] of one operation; consistent is FALSE
\* when an order is reported filled that the account cannot fill
RECURSIVE ApplyOrders(_, _, _)
ApplyOrders(ex, s, i) ==
  IF i > Len(s) THEN [ex |-> ex, consistent |-> TRUE]
  ELSE IF ~s[i].ok THEN ApplyOrders(ex, s, i + 1)
  ELSE IF ~Accepts(ex, s[i]) THEN [ex |-> ex, consistent |-> FALSE]
  ELSE ApplyOrders(Fill(ex, s[i]), s, i + 1)

\* the exchange's side of an operation that sent the orders s
ExchangeStep(s) ==
  IF exchange.tracked
  THEN \E a \in {ApplyOrders(exchange, s, 1)} :
         /\ a.consistent
         /\ a.ex.net \in (0 - MaxExposure)..MaxExposure
         /\ a.ex.long <= MaxExposure /\ a.ex.short <= MaxExposure
         /\ exchange' = a.ex
  ELSE exchange' = exchange

(* ---------------- run_strategy_trading, the bar loop ---------------- *)
\* The locals of the simulation before its first bar (lines 2180-2191): i is
\* the number of bars done, position is positions[symbol], bars the signal
\* and close of every bar done.
NoSim ==
  [i |-> 0, balance |-> TOTAL_PORTFOLIO_CAPITAL_USD,
   peak_balance |-> TOTAL_PORTFOLIO_CAPITAL_USD, position |-> NoPos,
   trading_stopped |-> FALSE, trades |-> <<>>, bars |-> <<>>]

\* what closing pos adds to the balance (lines 2212, 2229, 2236, 2252)
sim_proceeds(pos, current_price) ==
  IF pos = NoPos THEN 0
  ELSE IF pos.side = 1 THEN pos.size * current_price
  ELSE pos.size * pos.entry_price

\* a kill switch that follows the drawdown of the bar
sim_stopped_following(trading_stopped, balance, peak_balance) ==
  /\ balance < peak_balance
  /\ (peak_balance - balance) * 100
       >= GLOBAL_DRAWDOWN_LIMIT_PERCENT * peak_balance

\* lines 2197-2206: trading_stopped after the drawdown check of a bar
sim_stopped(trading_stopped, balance, peak_balance) ==
  \/ trading_stopped
  \/ /\ balance < peak_balance
     /\ (peak_balance - balance) * 100
          >= GLOBAL_DRAWDOWN_LIMIT_PERCENT * peak_balance

\* lines 2220-2237: the stop-loss / take-profit check of a bar
sim_exits(s, current_price) ==
  IF s.position # NoPos
     /\ (StopLossHit(s.position, current_price)
         \/ TakeProfitHit(s.position, current_price))
  THEN [s EXCEPT !.balance = @ + sim_proceeds(s.position, current_price),
                 !.position = NoPos]
  ELSE s

\* lines 2257-2297: the entry of a bar, after an opposite position was closed
sim_open(s, signal, current_price) ==
  LET stop_loss_price == StopLossPrice(signal, current_price)
      position_size ==
        calculate_position_size(symbol, current_price, stop_loss_price)
      cost == position_size * current_price
  IN IF position_size > 0 /\ cost <= s.balance
     THEN [s EXCEPT
             !.balance = @ - cost,
             !.position =
               [side |-> signal, size |-> position_size,
                entry_price |-> current_price,
                stop_loss_price |-> stop_loss_price,
                take_profit_price |-> TakeProfitPrice(signal, current_price)],
             !.trades = Append(@, [index |-> s.i, signal |-> signal,
                                   price |-> current_price,
                                   balance |-> s.balance - cost])]
     ELSE s

\* lines 2239-2255: the position limit and the signal of a bar
sim_signal(s, signal, current_price) ==
  IF (IF s.position # NoPos THEN 1 ELSE 0) >= MAX_CONCURRENT_TRADES THEN s
  ELSE IF signal = 0 THEN s
  ELSE IF s.position = NoPos THEN sim_open(s, signal, current_price)
  ELSE IF signal # s.position.side
  THEN sim_open([s EXCEPT !.balance =
                            @ + sim_proceeds(s.position, current_price),
                          !.position = NoPos],
                signal, current_price)
  ELSE s

\* lines 2193-2297: one bar of the loop, with its signal and its close
sim_bar(s, signal, current_price) ==
  LET stopped == sim_stopped(s.trading_stopped, s.balance, s.peak_balance)
      s1 == [s EXCEPT !.trading_stopped = stopped]
      s2 == IF stopped
            THEN [s1 EXCEPT
                    !.balance = @ + sim_proceeds(s.position, current_price),
                    !.position = NoPos]
            ELSE sim_signal(
                   sim_exits([s1 EXCEPT !.peak_balance =
                                          IF s.balance > @ THEN s.balance
                                          ELSE @],
                              current_price),
                   signal, current_price)
  IN [s2 EXCEPT !.i = s.i + 1,
                !.bars = Append(s.bars, <<signal, current_price>>)]

(* ---------------- operations ---------------- *)
NoOp ==
  [op |-> "init", signal |-> 0, price |-> 0, balance |-> NoneVal,
   side |-> "none", ret |-> FALSE, raised |-> FALSE, halted |-> FALSE,
   dd_checked |-> FALSE, exits_checked |-> FALSE, exits |-> <<>>,
   outcome |-> "none", before |-> AbsentEntry, peak_before |-> 0,
   hm |-> FALSE, hm_close |-> FALSE, ex_before |-> NoExchange,
   sym |-> "", entry_price |-> 0, stop_loss_price |-> 0, size |-> 0,
   amount |-> 0, qty_step |-> 0, min_qty |-> 0, quantity |-> 0,
   closed |-> 0]

\* the orders of a sequence of sent orders that open a position
Opens(s) == {i \in 1..Len(s) : s[i].by = "execute_signal"}
\* the orders that close one
Closes(s) == {i \in 1..Len(s) : s[i].by = "close_position"}

Opened(l, s) ==
  IF /\ l.op = "execute_signal"
     /\ \E i \in Opens(s) : s[i].ok
     /\ \A i \in 1..Len(s) : s[i].ok
  THEN l.signal ELSE 0

\* the bot after construction with self.symbol = sym, the configuration file
\* holding hedge_mode = hm and quantity_btc = qty, and maxc for
\* MAX_CONCURRENT_TRADES
InitWith(hm, maxc, qty, sym, ex) ==
  /\ positions = AbsentEntry
  /\ peak_portfolio_value = TOTAL_PORTFOLIO_CAPITAL_USD
  /\ hedge_mode = hm
  /\ max_concurrent_trades = maxc
  /\ quantity_btc = qty
  /\ symbol = sym
  /\ exchange = ex
  /\ running = TRUE
  /\ ever_halted = FALSE
  /\ sent = <<>>
  /\ last = NoOp
  /\ prev = 0
  /\ sim = NoSim

Init ==
  \E hm \in BOOLEAN :
    InitWith(hm, MAX_CONCURRENT_TRADES, 0, DefaultSymbol, NoExchange)

Machine == [positions |-> positions,
            peak_portfolio_value |-> peak_portfolio_value, sent |-> <<>>,
            demo |-> exchange.demo]

Config == <<hedge_mode, max_concurrent_trades, quantity_btc, symbol>>

CallOutcomes == Outcomes(MaxOrdersPerCall, Cardinality(OpenPositions(positions)))
IterationOutcomes ==
  Outcomes(MaxOrdersPerIteration, Cardinality(OpenPositions(positions)))

\* what every operation records of the state it started in
Started(op) ==
  [NoOp EXCEPT !.op = op, !.hm = hedge_mode, !.hm_close = hedge_mode,
               !.before = positions,
               !.peak_before = peak_portfolio_value, !.ex_before = exchange]

\* a call of execute_signal(signal, current_price, balance) with the price
\* and the balance taken from the given sets
ExecuteSignalOn(prices, balances) ==
  \E signal \in {-1, 0, 1}, current_price \in prices, balance \in balances,
     oks \in CallOutcomes :
    \E r \in {execute_signal(Machine, signal, current_price, balance,
                            hedge_mode, max_concurrent_trades, quantity_btc,
                            oks)} :
       /\ positions' = r.st.positions
       /\ peak_portfolio_value' = r.st.peak_portfolio_value
       /\ sent' = r.st.sent
       /\ ExchangeStep(r.st.sent)
       /\ ever_halted' = (ever_halted \/ r.halted)
       /\ prev' = Opened(last, sent)
       /\ last' = [Started("execute_signal")
                     EXCEPT !.signal = signal, !.price = current_price,
                            !.balance = balance, !.ret = r.ret,
                            !.raised = r.raised, !.halted = r.halted,
                            !.dd_checked = r.dd_checked]
       /\ UNCHANGED <<Config, sim, running>>

ExecuteSignal ==
  ExecuteSignalOn(EntryPrices, (PortfolioValues \ {0}) \cup {NoneVal})

\* a call of close_position(self.symbol, side)
ClosePosition ==
  \E side \in {"none", "long", "short"}, oks \in CallOutcomes :
    \E r \in {close_position(Machine, side, hedge_mode, oks)} :
       /\ positions' = r.st.positions
       /\ sent' = r.st.sent
       /\ ExchangeStep(r.st.sent)
       /\ prev' = Opened(last, sent)
       /\ last' = [Started("close_position")
                     EXCEPT !.side = side, !.ret = r.ret]
       /\ UNCHANGED <<Config, sim, peak_portfolio_value, running, ever_halted>>

\* a call of check_stop_loss_take_profit(current_price) with the price taken
\* from the given set
CheckStopLossTakeProfitOn(prices) ==
  \E current_price \in prices, oks \in CallOutcomes :
    \E r \in {check_stop_loss_take_profit(Machine, current_price, hedge_mode,
                                         oks)} :
       /\ positions' = r.st.positions
       /\ sent' = r.st.sent
       /\ ExchangeStep(r.st.sent)
       /\ prev' = Opened(last, sent)
       /\ last' = [Started("check_stop_loss_take_profit")
                     EXCEPT !.price = current_price,
                            !.ret = \E i \in 1..Len(r.exits) :
                                       r.exits[i].closed,
                            !.exits_checked = TRUE, !.exits = r.exits]
       /\ UNCHANGED <<Config, sim, peak_portfolio_value, running, ever_halted>>

CheckStopLossTakeProfit == CheckStopLossTakeProfitOn(TickPrices)

\* a call of close_all_positions()
CloseAllPositions ==
  \E oks \in CallOutcomes :
    \E r \in {close_all_positions(Machine, hedge_mode, oks)} :
       /\ positions' = r.st.positions
       /\ sent' = r.st.sent
       /\ ExchangeStep(r.st.sent)
       /\ prev' = Opened(last, sent)
       /\ last' = [Started("close_all_positions")
                     EXCEPT !.ret = r.closed > 0, !.closed = r.closed]
       /\ UNCHANGED <<Config, sim, peak_portfolio_value, running, ever_halted>>

\* a call of check_global_drawdown(current_portfolio_value)
CheckGlobalDrawdown ==
  \E v \in PortfolioValues :
    \E r \in {check_global_drawdown(peak_portfolio_value, v)} :
       /\ peak_portfolio_value' = r.peak
       /\ sent' = <<>>
       /\ ever_halted' = (ever_halted \/ r.ret)
       /\ prev' = Opened(last, sent)
       /\ last' = [Started("check_global_drawdown")
                     EXCEPT !.balance = v, !.ret = r.ret,
                            !.raised = r.raised, !.halted = r.ret,
                            !.dd_checked = TRUE]
       /\ UNCHANGED <<Config, sim, positions, exchange, running>>

\* one iteration of the while loop of LiveTradingBot.run; signal and
\* current_price are what the exchange would answer in this iteration, also
\* when the iteration ends before asking
RunIteration ==
  /\ running
  /\ \E disabled \in BOOLEAN :
     \E portfolio_value \in IF disabled THEN {NoneVal}
                            ELSE LoopPortfolioValues :
     \E data_ok \in IF disabled THEN {FALSE} ELSE BOOLEAN :
     \E signal \in IF data_ok THEN {-1, 0, 1, SignalNone} ELSE {SignalNone} :
     \E current_price \in IF signal = SignalNone THEN {NoneVal} ELSE LoopPrices :
     \E oks \in IF signal = SignalNone THEN Outcomes(MaxOrdersPerIteration, -1)
                ELSE IterationOutcomes :
       \E r \in {run_iteration(Machine, disabled, portfolio_value, data_ok,
                              signal, current_price, hedge_mode,
                              max_concurrent_trades, quantity_btc, oks)} :
          /\ positions' = r.st.positions
          /\ peak_portfolio_value' = r.st.peak_portfolio_value
          /\ sent' = r.st.sent
          /\ ExchangeStep(r.st.sent)
          /\ running' = ~r.raised
          /\ ever_halted' = (ever_halted \/ r.halted)
          /\ prev' = Opened(last, sent)
          /\ last' = [Started("run")
                        EXCEPT !.signal = signal, !.price = current_price,
                               !.balance = portfolio_value,
                               !.ret = r.ret, !.raised = r.raised,
                               !.halted = r.halted,
                               !.dd_checked = r.dd_checked,
                               !.exits_checked = r.exits_checked,
                               !.exits = r.exits, !.outcome = r.outcome]
          /\ UNCHANGED <<Config, sim>>

\* the arguments calculate_position_size is called with: a symbol inside and
\* one outside TRADEABLE_ASSETS, and prices of either sign.  Of the pairs with
\* a positive distance only those whose distance divides the risk amount are
\* drawn, so that the integer quotient is the float the code returns.
SizerSymbols == {"BTC/USDT", "ETH/USDT"}
SizerPrices == {-100, 0, 96, 98, 100, 102, 104, 200}
SizerInputs ==
  {a \in SizerSymbols \X SizerPrices \X SizerPrices :
     \/ a[2] <= 0 \/ a[3] <= 0 \/ a[2] = a[3]
     \/ ((TOTAL_PORTFOLIO_CAPITAL_USD * RISK_PER_TRADE_PERCENT) \div 100)
          % (IF a[2] >= a[3] THEN a[2] - a[3] ELSE a[3] - a[2]) = 0}

\* a call of config.calculate_position_size(sym, entry_price, stop_loss_price)
CalculatePositionSize ==
  \E a \in SizerInputs :
    /\ sent' = <<>>
    /\ prev' = Opened(last, sent)
    /\ last' = [Started("calculate_position_size")
                  EXCEPT !.sym = a[1], !.entry_price = a[2],
                         !.stop_loss_price = a[3],
                         !.size = calculate_position_size(a[1], a[2], a[3])]
    /\ UNCHANGED <<Config, sim, positions, peak_portfolio_value, exchange, running,
                   ever_halted>>

\* the amounts _place_order_direct_api is asked for (0.0004, 0.5244, 0.5246,
\* 3, 7, 10, 14 and 26 coin) and the lotSizeFilter of the instrument
\* (qtyStep and minOrderQty of 0.001, 1 or 10 coin, the minimum a multiple of
\* the step); no amount lies half-way between two steps
DirectAmounts == {4, 5244, 5246, 30000, 70000, 100000, 140000, 260000}
\* amounts that are no quantity: zero and a negative one
InvalidAmounts == {0, -5244}
DirectSteps == {10, 10000, 100000}
DirectFilters ==
  {f \in DirectSteps \X DirectSteps : f[2] >= f[1]}

\* a call of _place_order_direct_api(side, amount, position_idx) up to the
\* order it posts
PlaceOrderDirectApi ==
  \E amount \in DirectAmounts \cup InvalidAmounts, f \in DirectFilters :
    /\ sent' = <<>>
    /\ prev' = Opened(last, sent)
    /\ last' = [Started("_place_order_direct_api")
                  EXCEPT !.amount = amount, !.qty_step = f[1],
                         !.min_qty = f[2],
                         !.ret = ~direct_api_rejects(amount),
                         !.quantity =
                           IF direct_api_rejects(amount) THEN 0
                           ELSE direct_api_quantity(amount, f[1], f[2])]
    /\ UNCHANGED <<Config, sim, positions, peak_portfolio_value, exchange, running,
                   ever_halted>>

\* trading_config.json is rewritten with the other hedge_mode between two
\* operations (every operation reads the file anew: lines 1027, 1290, 1372,
\* 1403)
SetHedgeMode ==
  /\ hedge_mode' = ~hedge_mode
  /\ UNCHANGED <<positions, peak_portfolio_value, max_concurrent_trades,
                 quantity_btc, symbol, sim, exchange, running, ever_halted, sent,
                 last, prev>>

\* the methods of TradingBot, called in any order
Next ==
  \/ ExecuteSignal
  \/ ClosePosition
  \/ CheckStopLossTakeProfit
  \/ CloseAllPositions
  \/ CheckGlobalDrawdown

Spec == Init /\ [][Next]_vars

\* the polling loop of LiveTradingBot, the only caller of its TradingBot
NextRun == RunIteration

SpecRun == Init /\ [][NextRun]_vars

\* the configurations a bot can be started with: MAX_CONCURRENT_TRADES,
\* quantity_btc of trading_config.json (0: size by risk), and the symbol it
\* trades, one of them outside TRADEABLE_ASSETS
ConfigMaxTrades == {1, 2}
ConfigQuantities == {0, 3}
ConfigSymbols == {"BTC/USDT", "ETH/USDT"}

InitConfig ==
  \E hm \in BOOLEAN, maxc \in ConfigMaxTrades, qty \in ConfigQuantities,
     sym \in ConfigSymbols :
    InitWith(hm, maxc, qty, sym, NoExchange)

NextConfig ==
  \/ ExecuteSignalOn(EntryPrices, {NoneVal, 79999})
  \/ ClosePosition
  \/ CloseAllPositions

SpecConfig == InitConfig /\ [][NextConfig]_vars

\* the methods of TradingBot, with trading_config.json rewritten between
\* calls
FlipPrices == {100}
FlipTicks == {98, 100}

NextFlip ==
  \/ ExecuteSignalOn(FlipPrices, {NoneVal})
  \/ ClosePosition
  \/ CheckStopLossTakeProfitOn(FlipTicks)
  \/ CloseAllPositions
  \/ SetHedgeMode

SpecFlip == Init /\ [][NextFlip]_vars

\* Frontend-API/close_all_positions.py, run beside the bot: it reads the
\* positions the account holds and closes each with a reduceOnly market order
\* of the position's size, so the account ends flat; the bot's ledger is not
\* told
ExternalClose ==
  /\ exchange.tracked /\ Exposure(exchange) > 0
  /\ exchange' = [exchange EXCEPT !.net = 0, !.long = 0, !.short = 0]
  /\ UNCHANGED <<positions, peak_portfolio_value, hedge_mode,
                 max_concurrent_trades, quantity_btc, symbol, sim, running,
                 ever_halted, sent, last, prev>>

\* the position mode of the account is switched at the exchange, which it
\* allows only while the account holds no position (the warning of
\* LiveTradingBot.__init__)
ExchangeSwitchMode ==
  /\ exchange.tracked /\ Exposure(exchange) = 0
  /\ exchange' = [exchange EXCEPT !.hedge = ~@]
  /\ UNCHANGED <<positions, peak_portfolio_value, hedge_mode,
                 max_concurrent_trades, quantity_btc, symbol, sim, running,
                 ever_halted, sent, last, prev>>

\* the bot started on a flat account whose position mode is the one its
\* configuration names
InitExchange ==
  \E hm \in BOOLEAN :
    InitWith(hm, MAX_CONCURRENT_TRADES, 0, DefaultSymbol,
             [NoExchange EXCEPT !.tracked = TRUE, !.hedge = hm])

NextExchange ==
  \/ ExecuteSignalOn(FlipPrices, {NoneVal})
  \/ ClosePosition
  \/ CheckStopLossTakeProfitOn(FlipTicks)
  \/ CloseAllPositions
  \/ SetHedgeMode
  \/ ExternalClose
  \/ ExchangeSwitchMode

SpecExchange == InitExchange /\ [][NextExchange]_vars

\* calculate_position_size called between the operations of a bot
NextSizer ==
  \/ CalculatePositionSize
  \/ ExecuteSignalOn(FlipPrices, {NoneVal})

SpecSizer == Init /\ [][NextSizer]_vars

\* a bot whose TOTAL_PORTFOLIO_CAPITAL_USD is configured as 0, so that
\* peak_portfolio_value starts at 0 (line 86); it sizes its orders by a
\* positive quantity_btc, which does not consult the capital
InitZeroCapital ==
  \E hm \in BOOLEAN :
    /\ positions = AbsentEntry
    /\ peak_portfolio_value = 0
    /\ hedge_mode = hm
    /\ max_concurrent_trades = MAX_CONCURRENT_TRADES
    /\ quantity_btc = 3
    /\ symbol = DefaultSymbol
    /\ exchange = NoExchange
    /\ running = TRUE
    /\ ever_halted = FALSE
    /\ sent = <<>>
    /\ last = NoOp
    /\ prev = 0
    /\ sim = NoSim

NextZeroCapital ==
  \/ CheckGlobalDrawdown
  \/ ExecuteSignalOn(FlipPrices, {NoneVal, 0, 80001})
  \/ ClosePosition

SpecZeroCapital == InitZeroCapital /\ [][NextZeroCapital]_vars

\* a bot on a live or on a demo-trading account
InitDemo ==
  \E hm \in BOOLEAN, demo \in BOOLEAN :
    InitWith(hm, MAX_CONCURRENT_TRADES, 0, DefaultSymbol,
             [NoExchange EXCEPT !.demo = demo])

NextDemo ==
  \/ ExecuteSignalOn(EntryPrices, {NoneVal})
  \/ ClosePosition
  \/ CloseAllPositions

SpecDemo == InitDemo /\ [][NextDemo]_vars

\* orders posted by the direct API between the operations of a bot
NextDirect ==
  \/ PlaceOrderDirectApi
  \/ ExecuteSignalOn(FlipPrices, {NoneVal})

SpecDirect == Init /\ [][NextDirect]_vars

\* The ledger of a bot whose strategy had set stop_loss_pct = -0.02 and
\* take_profit_pct = -0.04 (the attributes of lines 95-96, 'can be adjusted
\* per strategy') when it opened its positions at 100: stop and target are
\* inverted, and a price between them satisfies both exit conditions.
InvertedLong ==
  [side |-> 1, size |-> 500, entry_price |-> 100, stop_loss_price |-> 102,
   take_profit_price |-> 96]
InvertedShort ==
  [side |-> -1, size |-> 500, entry_price |-> 100, stop_loss_price |-> 98,
   take_profit_price |-> 104]

InitInverted ==
  \E hm \in BOOLEAN :
    /\ positions \in IF hm
                     THEN {DictEntry(InvertedLong, NoPos),
                           DictEntry(NoPos, InvertedShort),
                           DictEntry(InvertedLong, InvertedShort)}
                     ELSE {SingleEntry(InvertedLong),
                           SingleEntry(InvertedShort)}
    /\ peak_portfolio_value = TOTAL_PORTFOLIO_CAPITAL_USD
    /\ hedge_mode = hm
    /\ max_concurrent_trades = MAX_CONCURRENT_TRADES
    /\ quantity_btc = 0
    /\ symbol = DefaultSymbol
    /\ exchange = NoExchange
    /\ running = TRUE
    /\ ever_halted = FALSE
    /\ sent = <<>>
    /\ last = NoOp
    /\ prev = 0
    /\ sim = NoSim

NextInverted ==
  \/ CheckStopLossTakeProfit
  \/ ClosePosition

SpecInverted == InitInverted /\ [][NextInverted]_vars

\* The bot alone on a tracked account that starts flat and is in the
\* position mode of the bot's flag; the flag is never changed.
NextAgree ==
  \/ ExecuteSignalOn(FlipPrices, {NoneVal})
  \/ ClosePosition
  \/ CheckStopLossTakeProfitOn(FlipTicks)
  \/ CloseAllPositions

SpecAgree == InitExchange /\ [][NextAgree]_vars

\* Operations during which update_trading_config (config.py lines 138-170,
\* called by the frontend API) rewrites hedge_mode: the operation has read
\* the old value at its start, the close_position calls it makes read the
\* new one.

\* execute_signal(0, current_price) across a rewrite of hedge_mode
ExecuteSignalFlatFlipped ==
  \E current_price \in FlipPrices, oks \in CallOutcomes :
    \E r \in {execute_signal_flat_reread(Machine, hedge_mode, ~hedge_mode,
                                        oks)} :
       /\ positions' = r.st.positions
       /\ sent' = r.st.sent
       /\ ExchangeStep(r.st.sent)
       /\ hedge_mode' = ~hedge_mode
       /\ prev' = Opened(last, sent)
       /\ last' = [Started("execute_signal")
                     EXCEPT !.signal = 0, !.price = current_price,
                            !.ret = r.ret, !.hm_close = ~hedge_mode]
       /\ UNCHANGED <<max_concurrent_trades, quantity_btc, symbol, sim,
                      peak_portfolio_value, running, ever_halted>>

\* check_stop_loss_take_profit(current_price) across a rewrite of hedge_mode
CheckStopLossTakeProfitFlipped ==
  \E current_price \in FlipTicks, oks \in CallOutcomes :
    \E r \in {check_stop_loss_take_profit_reread(Machine, current_price,
                                                hedge_mode, ~hedge_mode,
                                                oks)} :
       /\ positions' = r.st.positions
       /\ sent' = r.st.sent
       /\ ExchangeStep(r.st.sent)
       /\ hedge_mode' = ~hedge_mode
       /\ prev' = Opened(last, sent)
       /\ last' = [Started("check_stop_loss_take_profit")
                     EXCEPT !.price = current_price,
                            !.ret = \E i \in 1..Len(r.exits) :
                                       r.exits[i].closed,
                            !.exits_checked = TRUE, !.exits = r.exits,
                            !.hm_close = ~hedge_mode]
       /\ UNCHANGED <<max_concurrent_trades, quantity_btc, symbol, sim,
                      peak_portfolio_value, running, ever_halted>>

\* close_all_positions() across a rewrite of hedge_mode
CloseAllPositionsFlipped ==
  \E oks \in CallOutcomes :
    \E r \in {close_all_positions_reread(Machine, hedge_mode, ~hedge_mode,
                                        oks)} :
       /\ positions' = r.st.positions
       /\ sent' = r.st.sent
       /\ ExchangeStep(r.st.sent)
       /\ hedge_mode' = ~hedge_mode
       /\ prev' = Opened(last, sent)
       /\ last' = [Started("close_all_positions")
                     EXCEPT !.ret = r.closed > 0, !.closed = r.closed,
                            !.hm_close = ~hedge_mode]
       /\ UNCHANGED <<max_concurrent_trades, quantity_btc, symbol, sim,
                      peak_portfolio_value, running, ever_halted>>

NextRewrite ==
  \/ ExecuteSignalOn(FlipPrices, {NoneVal})
  \/ ClosePosition
  \/ CheckStopLossTakeProfitOn(FlipTicks)
  \/ CloseAllPositions
  \/ SetHedgeMode
  \/ ExecuteSignalFlatFlipped
  \/ CheckStopLossTakeProfitFlipped
  \/ CloseAllPositionsFlipped

SpecRewrite == Init /\ [][NextRewrite]_vars

\* The methods called in any order with hedge_mode rewritten between calls,
\* under a limit of one or two concurrent trades.
InitLimit ==
  \E hm \in BOOLEAN, maxc \in ConfigMaxTrades :
    InitWith(hm, maxc, 0, DefaultSymbol, NoExchange)

NextLimit ==
  \/ ExecuteSignalOn(FlipPrices, {NoneVal})
  \/ ClosePosition
  \/ CheckStopLossTakeProfitOn(FlipTicks)
  \/ CloseAllPositions
  \/ SetHedgeMode

SpecLimit == InitLimit /\ [][NextLimit]_vars

\* run_strategy_trading in test mode over a series of at most MaxBars bars.
MaxBars == 4
SimPrices == {100, 200}

SimulateBar ==
  /\ sim.i < MaxBars
  /\ \E signal \in {-1, 0, 1}, current_price \in SimPrices :
       sim' = sim_bar(sim, signal, current_price)
  /\ UNCHANGED <<Config, positions, peak_portfolio_value, exchange, running,
                 ever_halted, sent, last, prev>>

NextSim == SimulateBar

SpecSim == Init /\ [][NextSim]_vars

(* ======================= claims ======================= *)

\* C1: two execute_signal calls in a row with the same directional signal,
\* every order succeeding: the first call sent exactly one opening order, the
\* second sends no order and leaves the ledger unchanged, and the ledger holds
\* exactly one position for the signalled side (both modes).
C1_Idempotent ==
  /\ last.op = "execute_signal" => Cardinality(Opens(sent)) <= 1
  /\ (/\ last.op = "execute_signal" /\ last.signal \in {1, -1}
      /\ prev = last.signal
      /\ \A i \in 1..Len(sent) : sent[i].ok)
     => /\ sent = <<>>
        /\ positions = last.before
        /\ ~last.ret
        /\ Cardinality({p \in OpenPositions(positions) :
                          p.side = last.signal}) = 1

\* C2: in one-way mode, when execute_signal gets a signal opposite to the
\* position held, every opening order it sends is preceded by a closing order
\* that returned success.
C2_ReversalOrdering ==
  (/\ last.op = "execute_signal" /\ ~hedge_mode /\ last.signal \in {1, -1}
   /\ last.before.shape = "single"
   /\ last.before.single.side = 0 - last.signal)
  => \A i \in Opens(sent) : \E j \in Closes(sent) : j < i /\ sent[j].ok

\* C3: in one-way mode, when execute_signal gets a signal opposite to the
\* position held and the close leg does not succeed (no closing order of the
\* call returned success), the call sends no opening order and the ledger
\* holds no position afterwards.
C3_ReversalSafety ==
  (/\ last.op = "execute_signal" /\ ~hedge_mode /\ last.signal \in {1, -1}
   /\ ~last.halted
   /\ last.before.shape = "single"
   /\ last.before.single.side = 0 - last.signal
   /\ ~\E j \in Closes(sent) : sent[j].ok)
  => /\ Opens(sent) = {}
     /\ OpenPositions(positions) = {}

\* C4: a position leaves the ledger only in an operation in which a closing
\* order for it (opposite side, its size) returned success.
C4_Lifecycle ==
  \A p \in OpenPositions(last.before) \ OpenPositions(positions) :
    \E j \in Closes(sent) :
      /\ sent[j].ok
      /\ sent[j].amount = p.size
      /\ sent[j].side = (IF p.side = 1 THEN "sell" ELSE "buy")

\* C5: close_position on an open position (one-way mode with the side
\* omitted, hedge mode with the side given) sends exactly one closing order;
\* on success the position is gone from the ledger and True is returned, on
\* failure the ledger is unchanged and False is returned.
C5_CloseOutcome ==
  LET target ==
        IF hedge_mode
        THEN IF last.side = "long" THEN last.before.long
             ELSE IF last.side = "short" THEN last.before.short
             ELSE NoPos
        ELSE IF last.side = "none" THEN last.before.single ELSE NoPos
  IN (last.op = "close_position" /\ target # NoPos)
     => /\ Len(sent) = 1
        /\ sent[1].by = "close_position"
        /\ sent[1].ok => /\ last.ret
                         /\ OpenPositions(positions)
                              = OpenPositions(last.before) \ {target}
        /\ ~sent[1].ok => /\ ~last.ret
                          /\ positions = last.before

\* C6: execute_signal adds a position only when its opening order returned
\* success; when the opening order fails it returns False, adds nothing, and
\* removes nothing but through a confirmed closing order.
C6_NoPhantom ==
  last.op = "execute_signal"
  => /\ (OpenPositions(positions) \ OpenPositions(last.before) # {}
           => \E i \in Opens(sent) : sent[i].ok)
     /\ (\E i \in Opens(sent) : ~sent[i].ok)
          => /\ ~last.ret
             /\ OpenPositions(positions) \subseteq OpenPositions(last.before)
             /\ \A p \in OpenPositions(last.before) \ OpenPositions(positions) :
                  \E j \in Closes(sent) : sent[j].ok /\ sent[j].amount = p.size

\* C7: check_stop_loss_take_profit(price) invokes the close operation for the
\* slot of exactly those open positions whose stop-loss or take-profit
\* condition holds, one closing order each, and sends no order for the others.
C7_ExitTriggers ==
  LET price == last.price
      Triggered(p) ==
        \/ p.side = 1 /\ price <= p.stop_loss_price
        \/ p.side = -1 /\ price >= p.stop_loss_price
        \/ p.side = 1 /\ price >= p.take_profit_price
        \/ p.side = -1 /\ price <= p.take_profit_price
      Slots == IF hedge_mode THEN {"long", "short"} ELSE {"none"}
      At(slot) == IF slot = "long" THEN last.before.long
                  ELSE IF slot = "short" THEN last.before.short
                  ELSE last.before.single
      Idx(slot) == IF slot = "long" THEN "1"
                   ELSE IF slot = "short" THEN "2" ELSE "0"
  IN last.op = "check_stop_loss_take_profit"
     => /\ \A slot \in Slots :
             (At(slot) # NoPos /\ Triggered(At(slot)))
               <=> \E i \in 1..Len(last.exits) : last.exits[i].slot = slot
        /\ Len(sent) = Len(last.exits)
        /\ \A i \in 1..Len(sent) :
             /\ sent[i].by = "close_position"
             /\ sent[i].positionIdx = Idx(last.exits[i].slot)
             /\ sent[i].amount = At(last.exits[i].slot).size
        /\ \A i, j \in 1..Len(last.exits) :
             last.exits[i].slot = last.exits[j].slot => i = j

\* C8: an iteration of LiveTradingBot.run for which the exchange has a
\* current price runs check_stop_loss_take_profit against the open positions,
\* also when the drawdown limit is reached in that iteration.
C8_ExitsNotGated ==
  (/\ last.op = "run" /\ last.halted /\ last.price # NoneVal
   /\ OpenPositions(last.before) # {})
  => last.exits_checked

\* C9: a directional execute_signal call with portfolio value v sets
\* peak := max(peak, v); if (peak - v) / peak >= limit it sends no order,
\* leaves the ledger unchanged and returns False, otherwise the drawdown gate
\* does not refuse it; with peak 100000 and limit 0.20 the values 79999 and
\* 80000 are refused and 80001 is not.
C9_DrawdownGate ==
  LET v == last.balance
      peak == IF v > last.peak_before THEN v ELSE last.peak_before
      over == (peak - v) * 100 >= GLOBAL_DRAWDOWN_LIMIT_PERCENT * peak
  IN (last.op = "execute_signal" /\ last.signal \in {1, -1} /\ v # NoneVal)
     => /\ peak_portfolio_value = peak
        /\ last.halted <=> over
        /\ over => sent = <<>> /\ positions = last.before /\ ~last.ret
        /\ (last.peak_before = 100000 /\ v \in {79999, 80000}) => last.halted
        /\ (last.peak_before = 100000 /\ v = 80001) => ~last.halted

\* the boundary: exactly 20 % below the peak is refused
C9_Witness ==
  /\ last.op = "execute_signal" /\ last.signal = 1
  /\ last.peak_before = 100000 /\ last.balance = 80000
  /\ last.halted /\ sent = <<>> /\ ~last.ret

\* C10: after check_global_drawdown has returned True, a call with a
\* portfolio value whose drawdown from the peak is below the limit returns
\* False, and a directional signal delivered with it is not refused by the
\* drawdown gate.
C10_NotLatched ==
  [][(/\ ever_halted
      /\ last'.dd_checked
      /\ (peak_portfolio_value' - last'.balance) * 100
           < GLOBAL_DRAWDOWN_LIMIT_PERCENT * peak_portfolio_value')
     => /\ ~last'.halted
        /\ last'.op = "check_global_drawdown" => ~last'.ret]_vars

\* a position opened after the kill switch had tripped and the value recovered
C10_Witness ==
  /\ ever_halted /\ last.op = "execute_signal" /\ last.signal \in {1, -1}
  /\ last.dd_checked /\ ~last.halted /\ last.ret
  /\ \E i \in Opens(sent) : sent[i].ok

\* the closing order a position calls for: opposite side, full size
ClosingOrderFor(p, o) ==
  /\ o.by = "close_position"
  /\ o.side = (IF p.side = 1 THEN "sell" ELSE "buy")
  /\ o.amount = p.size

\* C11: execute_signal with signal 0 sends one closing order for every open
\* position of the ledger and no other order, whatever the portfolio value
\* handed in, and returns True exactly when a closing order succeeded.
C11_FlatSignal ==
  (last.op = "execute_signal" /\ last.signal = 0)
  => /\ \A p \in OpenPositions(last.before) :
          \E j \in 1..Len(sent) : ClosingOrderFor(p, sent[j])
     /\ Len(sent) = Cardinality(OpenPositions(last.before))
     /\ Opens(sent) = {}
     /\ ~last.halted /\ ~last.dd_checked
     /\ last.ret <=> \E j \in 1..Len(sent) : sent[j].ok

\* C12: a Long signal that opened a position, followed by a Short signal that
\* opened one, every order of both succeeding: in hedge mode the ledger then
\* holds a long and a short, in one-way mode it holds a short and nothing else.
C12_Coexistence ==
  (/\ last.op = "execute_signal" /\ last.signal = -1 /\ prev = 1
   /\ Opens(sent) # {} /\ \A i \in 1..Len(sent) : sent[i].ok)
  => IF last.hm
     THEN /\ positions.shape = "dict"
          /\ positions.long # NoPos /\ positions.long.side = 1
          /\ positions.short # NoPos /\ positions.short.side = -1
     ELSE /\ positions.shape = "single"
          /\ positions.single.side = -1

\* hedge mode: the Long opened from an empty ledger and the Short opened next
\* to it
C12_Witness ==
  /\ last.op = "execute_signal" /\ last.signal = -1 /\ prev = 1 /\ last.hm
  /\ Opens(sent) # {} /\ \A i \in 1..Len(sent) : sent[i].ok
  /\ last.before.short = NoPos /\ last.before.long # NoPos
  /\ positions.long = last.before.long /\ positions.short # NoPos

\* the open position slots of a ledger entry as a mode counts them: the long
\* and the short apart in hedge mode, one for the symbol in one-way mode
Slots(e, hm) ==
  IF hm THEN Cardinality(OpenPositions(e))
  ELSE IF OpenPositions(e) = {} THEN 0 ELSE 1

\* C13: a directional signal that finds max_concurrent_trades or more open
\* slots in the ledger (after the closes it made itself) sends no opening
\* order and leaves the ledger as it was; one that finds fewer, no position on
\* its own side, the drawdown gate open and a positive size sends the opening
\* order.
C13_ConcurrencyGate ==
  (last.op = "execute_signal" /\ last.signal # 0)
  => LET closed == Cardinality({j \in Closes(sent) : sent[j].ok})
         slots == Slots(last.before, last.hm) - closed
         held == \E p \in OpenPositions(last.before) : p.side = last.signal
     IN /\ slots >= max_concurrent_trades
           => (Opens(sent) = {} /\ positions = last.before)
        /\ (/\ slots < max_concurrent_trades /\ ~held /\ ~last.halted
            /\ (quantity_btc > 0 \/ symbol \in TRADEABLE_ASSETS))
           => Opens(sent) # {}

\* C14: every order close_position sends is on the side opposite to a position
\* the ledger held when the operation began (sell for a Long, buy for a Short)
\* and for that position's full size.
C14_ClosingOrderShape ==
  \A j \in Closes(sent) :
    \E p \in OpenPositions(last.before) : ClosingOrderFor(p, sent[j])

\* hedge mode: the short of a pair closed by a buy of its size
C14_Witness ==
  /\ last.op = "close_position" /\ last.side = "short" /\ last.hm
  /\ last.before.long # NoPos /\ last.before.short # NoPos
  /\ Len(sent) = 1 /\ sent[1].ok /\ sent[1].side = "buy"
  /\ sent[1].amount = last.before.short.size
  /\ positions.short = NoPos /\ positions.long = last.before.long

\* C15: every order carries the slot of the mode its operation read: '0' in
\* one-way mode; in hedge mode '1' on the buy that opens a long and the sell
\* that closes one, '2' on the sell that opens a short and the buy that closes
\* one.
C15_SlotTagging ==
  \A j \in 1..Len(sent) :
    sent[j].positionIdx =
      IF ~last.hm THEN "0"
      ELSE IF sent[j].by = "execute_signal"
      THEN (IF sent[j].side = "buy" THEN "1" ELSE "2")
      ELSE (IF sent[j].side = "sell" THEN "1" ELSE "2")

\* hedge mode: a Short opened next to a long with a sell tagged '2'
C15_Witness ==
  /\ last.op = "execute_signal" /\ last.signal = -1 /\ last.hm
  /\ last.before.long # NoPos
  /\ Len(sent) = 1 /\ sent[1].ok /\ sent[1].side = "sell"
  /\ sent[1].positionIdx = "2"
  /\ positions.short # NoPos

\* every filled order of s[i..] that close_position sent leaves the account,
\* as it stood when the order arrived, with no more exposure than before
RECURSIVE ClosesReduce(_, _, _)
ClosesReduce(ex, s, i) ==
  IF i > Len(s) THEN TRUE
  ELSE IF ~s[i].ok THEN ClosesReduce(ex, s, i + 1)
  ELSE /\ s[i].by = "close_position"
          => Exposure(Fill(ex, s[i])) <= Exposure(ex)
       /\ ClosesReduce(Fill(ex, s[i]), s, i + 1)

\* C16: an order sent by close_position never creates or increases exposure
\* at the exchange, also when the account no longer holds the position the
\* ledger records.
C16_ReduceOnly ==
  last.ex_before.tracked => ClosesReduce(last.ex_before, sent, 1)

\* C17: calculate_position_size returns 0 for an entry or a stop that is not
\* positive, for entry = stop and for a symbol outside TRADEABLE_ASSETS;
\* otherwise the quantity whose product with |entry - stop| is the risk amount
\* (500 for entry 100, stop 98).  The call changes neither the ledger nor the
\* peak value, and a second call with the same arguments returns the same.
C17_RiskSizing ==
  [][last'.op = "calculate_position_size"
     => LET e == last'.entry_price
            s == last'.stop_loss_price
            d == IF e >= s THEN e - s ELSE s - e
            denied == e <= 0 \/ s <= 0 \/ e = s
                      \/ last'.sym \notin TRADEABLE_ASSETS
        IN /\ denied => last'.size = 0
           /\ ~denied
              => last'.size * d * 100
                   = TOTAL_PORTFOLIO_CAPITAL_USD * RISK_PER_TRADE_PERCENT
           /\ (~denied /\ e = 100 /\ s = 98) => last'.size = 500
           /\ positions' = positions
           /\ peak_portfolio_value' = peak_portfolio_value
           /\ (/\ last.op = "calculate_position_size"
               /\ last.sym = last'.sym /\ last.entry_price = e
               /\ last.stop_loss_price = s)
              => last'.size = last.size]_vars

\* the size for entry 100 and stop 98, computed while the ledger holds a
\* position
C17_Witness ==
  /\ last.op = "calculate_position_size" /\ last.sym = "BTC/USDT"
  /\ last.entry_price = 100 /\ last.stop_loss_price = 98 /\ last.size = 500
  /\ OpenPositions(positions) # {} /\ positions = last.before

\* C18: an opening order of execute_signal is for quantity_btc when that is
\* positive, and else for the size calculate_position_size returns for the
\* current price and the stop-loss price derived from it; when that size is
\* not positive no order is sent, the ledger gains no position and the call
\* returns False.
C18_SizingDecision ==
  (last.op = "execute_signal" /\ last.signal # 0 /\ last.price # NoneVal)
  => LET by_risk == calculate_position_size(symbol, last.price,
                      StopLossPrice(last.signal, last.price))
     IN /\ \A j \in Opens(sent) :
             sent[j].amount = IF quantity_btc > 0 THEN quantity_btc ELSE by_risk
        /\ (quantity_btc <= 0 /\ by_risk <= 0)
           => /\ Opens(sent) = {} /\ ~last.ret
              /\ OpenPositions(positions) \subseteq OpenPositions(last.before)

\* the override used verbatim for a symbol the sizer would refuse
C18_Witness ==
  /\ last.op = "execute_signal" /\ last.signal = 1 /\ quantity_btc = 3
  /\ symbol \notin TRADEABLE_ASSETS
  /\ Len(sent) = 1 /\ sent[1].ok /\ sent[1].amount = 3 /\ last.ret
  /\ \E p \in OpenPositions(positions) : p.side = 1 /\ p.size = 3

C20_LedgerShape ==
  last.op \in {"execute_signal", "close_position", "close_all_positions",
               "check_stop_loss_take_profit"}
  => /\ positions.shape # "mixed"
     /\ positions.shape = "single" => ~last.hm
     /\ positions.shape = "dict" => last.hm
     /\ ~last.hm => Cardinality(OpenPositions(positions)) <= 1

\* C21: peak_portfolio_value never decreases; a step that hands a portfolio
\* value to check_global_drawdown leaves it at the larger of its old value and
\* that value, and every other step leaves it as it was.
C21_PeakMonotonic ==
  [][/\ peak_portfolio_value' >= peak_portfolio_value
     /\ peak_portfolio_value' =
          IF last'.dd_checked /\ last'.balance > peak_portfolio_value
          THEN last'.balance ELSE peak_portfolio_value]_vars

\* the peak raised to 125000 by an earlier check and kept by an operation that
\* was handed a lower value
C21_Witness ==
  /\ peak_portfolio_value = 125000 /\ last.peak_before = 125000
  /\ last.op = "execute_signal" /\ last.dd_checked /\ last.balance = 80001

\* C22: a drawdown check that finds peak_portfolio_value 0 and leaves it 0
\* (the value handed in is not above 0) does not fail and does not halt.
C22_ZeroPeakGuard ==
  (last.dd_checked /\ last.peak_before = 0 /\ last.balance <= 0)
  => ~last.raised /\ ~last.halted

\* C23: one execute_signal call sends at most one opening order, one
\* close_position call at most one closing order per slot, and each order is
\* submitted to the exchange by one order-creation request and no second one.
C23_NoRetry ==
  /\ Cardinality(Opens(sent)) <= 1
  /\ \A i, j \in Closes(sent) :
       sent[i].positionIdx = sent[j].positionIdx => i = j
  /\ \A j \in 1..Len(sent) : Len(sent[j].requests) <= 1

\* C24: the quantity _place_order_direct_api posts is the multiple of qtyStep
\* nearest to the amount asked for, or minOrderQty when that multiple is below
\* it.
C24_QuantityRounding ==
  last.op = "_place_order_direct_api"
  => \E n \in {last.amount - (last.amount % last.qty_step),
               last.amount - (last.amount % last.qty_step) + last.qty_step} :
       /\ 2 * (IF n >= last.amount THEN n - last.amount ELSE last.amount - n)
            <= last.qty_step
       /\ last.quantity = IF n < last.min_qty THEN last.min_qty ELSE n

\* C25: close_all_positions sends one closing order for every open position
\* of the ledger and returns the number of them that succeeded; when all
\* succeed the ledger holds no open position afterwards and the number
\* returned is the number of positions that were open.
C25_CloseAll ==
  last.op = "close_all_positions"
  => /\ \A p \in OpenPositions(last.before) :
          \E j \in 1..Len(sent) : ClosingOrderFor(p, sent[j])
     /\ Len(sent) = Cardinality(OpenPositions(last.before))
     /\ last.closed = Cardinality({j \in 1..Len(sent) : sent[j].ok})
     /\ (\A j \in 1..Len(sent) : sent[j].ok)
        => /\ OpenPositions(positions) = {}
           /\ last.closed = Cardinality(OpenPositions(last.before))

\* C26: in hedge mode execute_signal with a Long or a Short signal sends no
\* closing order and leaves the position on the opposite side of the ledger
\* as it was, whether it opens the new side or not.
C26_HedgeNeverReverses ==
  (last.op = "execute_signal" /\ last.signal # 0 /\ last.hm)
  => /\ Closes(sent) = {}
     /\ last.signal = 1 => positions.short = last.before.short
     /\ last.signal = -1 => positions.long = last.before.long
     /\ positions.single = last.before.single

\* a Long signal whose opening order failed next to a short that stays
C26_Witness ==
  /\ last.op = "execute_signal" /\ last.signal = 1 /\ last.hm
  /\ last.before.short # NoPos /\ last.before.long = NoPos
  /\ Len(sent) = 1 /\ ~sent[1].ok /\ ~last.ret
  /\ positions.short = last.before.short /\ positions.long = NoPos

\* the position a slot of an exit check stands for in a ledger entry
SlotPosition(e, slot) ==
  IF slot = "long" THEN e.long
  ELSE IF slot = "short" THEN e.short
  ELSE ConvertToOneWay(e)

\* C27: one call of check_stop_loss_take_profit attempts at most one close
\* for each position, and a position whose stop-loss and take-profit
\* conditions both hold at the price is closed through the stop-loss branch.
C27_ExitPrecedence ==
  last.op = "check_stop_loss_take_profit"
  => /\ \A i, j \in 1..Len(last.exits) :
          last.exits[i].slot = last.exits[j].slot => i = j
     /\ Len(sent) = Len(last.exits)
     /\ \A i, j \in 1..Len(sent) :
          sent[i].positionIdx = sent[j].positionIdx => i = j
     /\ \A i \in 1..Len(last.exits) :
          LET p == SlotPosition(last.before, last.exits[i].slot)
          IN (StopLossHit(p, last.price) /\ TakeProfitHit(p, last.price))
             => last.exits[i].via = "stop_loss"

\* a long with stop 102 and target 96 closed at 100 through the stop-loss
\* branch, by one order
C27_Witness ==
  /\ last.op = "check_stop_loss_take_profit" /\ last.price = 100 /\ last.hm
  /\ last.before.long = InvertedLong /\ last.before.short = NoPos
  /\ Len(last.exits) = 1 /\ last.exits[1].via = "stop_loss"
  /\ last.exits[1].closed /\ Len(sent) = 1 /\ positions.long = NoPos

\* the ledger records an open position on the side (1 long, -1 short)
LedgerHolds(e, side) ==
  \/ e.single # NoPos /\ e.single.side = side
  \/ side = 1 /\ e.long # NoPos
  \/ side = -1 /\ e.short # NoPos

\* the account holds an open position on the side
ExchangeHolds(ex, side) ==
  IF side = 1 THEN ex.net > 0 \/ ex.long > 0 ELSE ex.net < 0 \/ ex.short > 0

\* C28: on an account that started flat, on which only the bot trades and
\* whose mode is constant, the ledger records an open position on a side
\* exactly when the account holds one on that side, after every operation.
C28_LedgerMatchesExchange ==
  exchange.tracked
  => \A side \in {1, -1} :
       LedgerHolds(positions, side) <=> ExchangeHolds(exchange, side)

\* C29: the close_position calls made from inside execute_signal,
\* check_stop_loss_take_profit and close_all_positions work in the mode the
\* enclosing operation read, also when hedge_mode is rewritten while the
\* operation runs: their orders carry a hedge slot ('1' or '2') when it read
\* hedge mode and '0' when it read one-way mode, and the exit check closes
\* the slots it examined.
C29_ModeSnapshot ==
  last.op \in {"execute_signal", "check_stop_loss_take_profit",
               "close_all_positions"}
  => /\ \A j \in Closes(sent) :
          sent[j].positionIdx \in (IF last.hm THEN {"1", "2"} ELSE {"0"})
     /\ last.exits_checked => Cardinality(Closes(sent)) <= Len(last.exits)
     /\ \A i \in 1..Len(last.exits) :
          last.exits[i].closed
          => \E j \in Closes(sent) :
               /\ sent[j].ok
               /\ ClosingOrderFor(SlotPosition(last.before,
                                               last.exits[i].slot), sent[j])
               /\ sent[j].positionIdx =
                    (IF last.exits[i].slot = "long" THEN "1"
                     ELSE IF last.exits[i].slot = "short" THEN "2" ELSE "0")

\* C30: an execute_signal, close_position or check_stop_loss_take_profit call
\* that reads one-way mode on a ledger holding both a long and a short (the
\* flag went from hedge to one-way) loses neither: each of the two is still
\* in the ledger afterwards unless a closing order for it succeeded.
C30_MigrationTotal ==
  (/\ last.op \in {"execute_signal", "close_position",
                   "check_stop_loss_take_profit"}
   /\ ~last.hm
   /\ last.before.long # NoPos /\ last.before.short # NoPos)
  => \A p \in {last.before.long, last.before.short} :
       \/ p \in OpenPositions(positions)
       \/ \E j \in Closes(sent) : sent[j].ok /\ ClosingOrderFor(p, sent[j])

\* C31: execute_signal reading hedge mode on a ledger that holds a one-way
\* record on the side of the signal (the flag went from one-way to hedge)
\* sends no order and leaves the record as the only position, the hedge
\* entry of that side, counted as one slot by can_open_new_position.
C31_MigrationIdempotent ==
  (/\ last.op = "execute_signal" /\ last.hm
   /\ last.before.shape = "single"
   /\ last.signal = last.before.single.side)
  => /\ sent = <<>>
     /\ OpenPositions(positions) = {last.before.single}
     /\ (IF last.signal = 1 THEN positions.long ELSE positions.short)
          = last.before.single
     /\ ~can_open_new_position(positions, TRUE, 1)
     /\ can_open_new_position(positions, TRUE, 2)

\* the position records a ledger entry holds, each counted once
LedgerSlots(e) ==
  (IF e.single # NoPos THEN 1 ELSE 0) + (IF e.long # NoPos THEN 1 ELSE 0)
  + (IF e.short # NoPos THEN 1 ELSE 0)

\* C32: whatever the sequence of calls and of changes of hedge_mode between
\* them, the ledger never holds more open positions than
\* max_concurrent_trades.
C32_SlotCount == LedgerSlots(positions) <= max_concurrent_trades

\* C33: an iteration of LiveTradingBot.run that got a signal and then no
\* price (get_current_price returned None) ends normally, the loop goes on,
\* and the iteration sends no opening order.
C33_PriceFailureTolerated ==
  (/\ last.op = "run" /\ last.outcome \in {"done", "crashed"}
   /\ last.price = NoneVal)
  => /\ ~last.raised /\ last.outcome = "done" /\ running
     /\ Opens(sent) = {}

\* C34: an iteration of LiveTradingBot.run that could not obtain the
\* portfolio value and got a directional signal: the drawdown gate does not
\* refuse the signal and peak_portfolio_value is left as it was, whatever the
\* peak is.
C34_UnknownValueSkipsGate ==
  (/\ last.op = "run" /\ last.outcome \in {"done", "crashed"}
   /\ last.balance = NoneVal /\ last.signal \in {1, -1})
  => /\ ~last.halted
     /\ peak_portfolio_value = last.peak_before

\* C35: an iteration of LiveTradingBot.run in which the account equity v,
\* zero included, lies at or beyond the drawdown limit below the peak sends no
\* opening order.
C35_LoopKillSwitch ==
  LET v == last.balance
      peak == IF v > last.peak_before THEN v ELSE last.peak_before
  IN (/\ last.op = "run" /\ last.outcome # "disabled" /\ v # NoneVal
      /\ (peak - v) * 100 >= GLOBAL_DRAWDOWN_LIMIT_PERCENT * peak)
     => Opens(sent) = {}

\* C36: execute_signal returns True whenever an order it sent succeeded, and
\* when it returns False the ledger holds the positions it held before the
\* call.
C36_ResultReflectsChange ==
  (last.op = "execute_signal" /\ ~last.raised)
  => /\ (\E j \in 1..Len(sent) : sent[j].ok) => last.ret
     /\ ~last.ret => OpenPositions(positions) = OpenPositions(last.before)

\* C37: _place_order_direct_api called with an amount of zero or less posts
\* no order and returns None.
C37_InvalidQuantityRejected ==
  (last.op = "_place_order_direct_api" /\ last.amount <= 0)
  => ~last.ret /\ last.quantity = 0

\* C38: in run_strategy_trading a bar that starts with the drawdown of the
\* balance from peak_balance at or beyond the limit, and every bar after it,
\* leaves trading_stopped true, no position open and the list of trades as it
\* was, also when the balance has recovered.
C38_SimulationLatch ==
  [][(\/ sim.trading_stopped
      \/ /\ sim.balance < sim.peak_balance
         /\ (sim.peak_balance - sim.balance) * 100
              >= GLOBAL_DRAWDOWN_LIMIT_PERCENT * sim.peak_balance)
     => /\ sim'.trading_stopped
        /\ sim'.position = NoPos
        /\ sim'.trades = sim.trades]_vars

\* a long entered at 100 was closed by the kill switch at 200; the balance is
\* above the peak again and the Long signal of the last bar made no trade
C38_Witness ==
  /\ sim.trading_stopped /\ sim.i = 3 /\ Len(sim.trades) = 1
  /\ sim.trades[1].signal = 1 /\ sim.trades[1].index = 0
  /\ sim.balance > sim.peak_balance /\ sim.position = NoPos
  /\ sim.bars[3][1] = 1
====
